---- MODULE Spec2Model ----
(***************************************************************************)
(* Model of backend/ml/predict.py: the image pipeline predict() and the    *)
(* soil pipeline predict_soil().                                           *)
(*                                                                         *)
(* Scores are integers in units of 0.00001 (so 0.15 is 15000 and rounding  *)
(* to four decimals is rounding to a multiple of 10).  Class labels, crop  *)
(* and disease names are sequences of one-character strings, so that       *)
(* split, replace, lower and the substring test are computed, not assumed. *)
(* A JSON value is a record [t, v]: t is "null", "str", "list" or "num",   *)
(* and v is a sequence of strings (the characters of a str, the items of a *)
(* list, the digits of a num, empty for null).                             *)
(***************************************************************************)
EXTENDS Integers, Sequences, FiniteSets, TLC

VARIABLES
    mode,               \* "image" (predict) or "soil" (predict_soil)
    pc,                 \* position of the invocation
    emitted,            \* sequence of the objects passed to emit()
    escaped,            \* TRUE once an exception has left the function
    model_missing,      \* os.path.exists(MODEL_PATH / SOIL_MODEL_PATH) was False
    info_missing,       \* os.path.exists(DISEASE_INFO_PATH) was False
    class_names,        \* index -> label
    full_disease_info,  \* label -> metadata record
    tmp_file,           \* "none", "exists" or "deleted"
    predictions,        \* the score vector, index -> score
    top_k_indices,      \* predictions.argsort()[-5:][::-1]
    predicted_class_idx,
    confidence,
    predicted_class,
    prediction          \* the soil model's class id

vars == <<mode, pc, emitted, escaped, model_missing, info_missing, class_names,
          full_disease_info, tmp_file, predictions, top_k_indices,
          predicted_class_idx, confidence, predicted_class, prediction>>

----------------------------------------------------------------------------
(* Program constants *)

Threshold == 15000          \* 0.15, the confidence gate
TopK == 5                   \* the candidate window

(* Bounds *)

NumClasses == TopK + 1      \* resolver specification: one class more than the window
PipelineClasses == 2        \* end-to-end specification: classes of the image model
MaxPartLen == 3             \* longest A and B of a generated label A___B
MaxSoilClass == 3           \* soil class ids range over -1 .. MaxSoilClass, and 99

ScoreValues == {3125, 14999, 15000}     \* 0.03125, 0.14999, 0.15

----------------------------------------------------------------------------
(* Strings as sequences of characters *)

Sep == <<"_", "_", "_">>
PlantVillage == <<"P", "l", "a", "n", "t", "V", "i", "l", "l", "a", "g", "e">>
Unknown == <<"U", "n", "k", "n", "o", "w", "n">>
Healthy == <<"h", "e", "a", "l", "t", "h", "y">>
Tomato___Healthy == <<"T", "o", "m", "a", "t", "o">> \o Sep \o <<"H", "e", "a", "l", "t", "h", "y">>
Wheat___Rust == <<"W", "h", "e", "a", "t">> \o Sep \o <<"R", "u", "s", "t">>

\* s[i..] starts with p
MatchAt(s, p, i) ==
    /\ i + Len(p) - 1 <= Len(s)
    /\ \A j \in 1 .. Len(p) : s[i + j - 1] = p[j]

\* Python: p in s
Contains(s, p) == \E i \in 1 .. (Len(s) + 1) : MatchAt(s, p, i)

\* Python: s.find(p, i), 1-based, 0 when there is none
RECURSIVE Find(_, _, _)
Find(s, p, i) ==
    IF i + Len(p) - 1 > Len(s) THEN 0
    ELSE IF MatchAt(s, p, i) THEN i
    ELSE Find(s, p, i + 1)

\* Python: s.split(p), no maxsplit: every non-overlapping occurrence, left to right
RECURSIVE Split(_, _)
Split(s, p) ==
    LET at == Find(s, p, 1) IN
    IF at = 0 THEN <<s>>
    ELSE <<SubSeq(s, 1, at - 1)>> \o Split(SubSeq(s, at + Len(p), Len(s)), p)

\* Python: s.replace("_", " ")
Replace(s) == [i \in 1 .. Len(s) |-> IF s[i] = "_" THEN " " ELSE s[i]]

LowerChar(c) ==
    CASE c = "H" -> "h"
      [] c = "T" -> "t"
      [] c = "W" -> "w"
      [] c = "R" -> "r"
      [] c = "P" -> "p"
      [] c = "V" -> "v"
      [] c = "U" -> "u"
      [] c = "C" -> "c"
      [] c = "A" -> "a"
      [] OTHER -> c

\* Python: s.lower()
Lower(s) == [i \in 1 .. Len(s) |-> LowerChar(s[i])]

----------------------------------------------------------------------------
(* JSON values *)

Null == [t |-> "null", v |-> <<>>]
Str(s) == [t |-> "str", v |-> s]
List(items) == [t |-> "list", v |-> items]
Num(digits) == [t |-> "num", v |-> <<digits>>]

\* Python: d.get(k, default) on a dict
Get(d, k, default) == IF k \in DOMAIN d THEN d[k] ELSE default

EmptyDict == [k \in {} |-> Null]

----------------------------------------------------------------------------
(* Numbers *)

\* Python: round(x / m) to the nearest integer, halves to the even neighbour
RoundHalfEven(x, m) ==
    LET q == x \div m
        r == x % m
    IN  IF 2 * r < m THEN q
        ELSE IF 2 * r > m THEN q + 1
        ELSE IF q % 2 = 0 THEN q ELSE q + 1

\* Python: round(confidence, 4), in units of 0.00001
Round4(x) == 10 * RoundHalfEven(x, 10)

\* Python: round(confidence * 100, 1), in tenths of a percent
Pct1(x) == RoundHalfEven(x, 100)

\* np.max(predictions)
Max(f) == CHOOSE m \in {f[i] : i \in DOMAIN f} : \A i \in DOMAIN f : f[i] <= m

\* np.argmax(predictions): the first index holding the maximum
ArgMax(f) == CHOOSE i \in DOMAIN f : f[i] = Max(f) /\ \A j \in DOMAIN f : f[j] = Max(f) => i <= j

----------------------------------------------------------------------------
(* Candidate resolver, predict() steps 9 and 10 *)

\* The gate with the comparison made inclusive
Rejects_Inclusive(f) == Max(f) <= Threshold

\* top_confidence < 0.15
Rejects(f) == Max(f) < Threshold

\* The sequences that list k indices of rem by descending score.  Among equal
\* scores every order is possible.
RECURSIVE Descending(_, _, _)
Descending(f, rem, k) ==
    IF k = 0 \/ rem = {} THEN {<<>>}
    ELSE LET top == {i \in rem : \A j \in rem : f[j] <= f[i]}
         IN  UNION {{<<i>> \o t : t \in Descending(f, rem \ {i}, k - 1)} : i \in top}

Reverse(t) == [p \in 1 .. Len(t) |-> t[Len(t) + 1 - p]]

\* The candidate list without the reversal: predictions.argsort()[-5:]
ArgsortTail_NotReversed(f) == {Reverse(t) : t \in Descending(f, DOMAIN f, TopK)}

\* predictions.argsort()[-5:][::-1].  argsort() uses numpy's default sort, which
\* is not stable: an ascending order with equal scores in any order.  Its last
\* five entries, reversed, are the five highest in descending order.
ArgsortTail(f) == Descending(f, DOMAIN f, TopK)

\* class_names.get(int(idx), "Unknown")
NameOf(names, idx) == Get(names, idx, Unknown)

\* The skip filter with "Unknown" left out of it
Survives_PlantVillageOnly(names, idx) == NameOf(names, idx) # PlantVillage

\* class_name not in ("PlantVillage", "Unknown")
Survives(names, idx) == NameOf(names, idx) \notin {PlantVillage, Unknown}

\* The for loop over top_k_indices: the first surviving index, -1 when none
RECURSIVE Walk(_, _)
Walk(names, t) ==
    IF t = <<>> THEN -1
    ELSE IF Survives(names, Head(t)) THEN Head(t)
    ELSE Walk(names, Tail(t))

\* predicted_class_idx after the loop and the fallback
ResolvedIdx(f, names, t) == IF Walk(names, t) = -1 THEN ArgMax(f) ELSE Walk(names, t)

\* The confidence taken from the top score, not from the resolved index
ResolvedConfidence_TopScore(f, names, t) == Max(f)

\* confidence after the loop and the fallback
ResolvedConfidence(f, names, t) == IF Walk(names, t) = -1 THEN Max(f) ELSE f[Walk(names, t)]

----------------------------------------------------------------------------
(* Label decomposer and result assembler, predict() step 11 *)

\* full_disease_info.get(predicted_class, {})
DiseaseData(store, label) == Get(store, label, EmptyDict)

\* if disease_data: a dict is true when it has a key
Truthy(d) == DOMAIN d # {}

\* predicted_class.split("___")[0].replace("_", " ") if "___" in predicted_class else predicted_class
DecomposeCrop(label) ==
    IF Contains(label, Sep) THEN Replace(Split(label, Sep)[1]) ELSE label

\* The disease taken from the first part of the split, as the crop is
DecomposeDisease_FirstPart(label) ==
    IF Contains(label, Sep) THEN Replace(Split(label, Sep)[1]) ELSE label

\* predicted_class.split("___")[1].replace("_", " ") if "___" in predicted_class else predicted_class
DecomposeDisease(label) ==
    IF Contains(label, Sep) THEN Replace(Split(label, Sep)[2]) ELSE label

CropName(dd, label) ==
    IF Truthy(dd) THEN Get(dd, "crop", Str(Unknown)) ELSE Str(DecomposeCrop(label))

DiseaseName(dd, label) ==
    IF Truthy(dd) THEN Get(dd, "disease", Str(Unknown)) ELSE Str(DecomposeDisease(label))

\* disease_name.lower() is evaluated for the default of plantHealth whether or
\* not the record has health_status: it raises unless disease_name is a str
AssembleRaises(dd, label) == DiseaseName(dd, label).t # "str"

\* str(x) inside an f-string
Text(j) == IF j.t = "null" THEN <<"None">> ELSE j.v

PlantHealthDefault(disease) ==
    Str(IF Contains(Lower(disease.v), Healthy) THEN <<"Healthy">> ELSE <<"Diseased">>)

DiagnosisDefault(crop, disease, conf) ==
    Str(<<"ML model detected ">> \o Text(disease) \o <<" in ">> \o Text(crop)
        \o <<" with ", ToString(Pct1(conf) \div 10), ".", ToString(Pct1(conf) % 10),
             "% confidence.">>)

\* The result dict of predict(); executionTimeMs and modelUsed carry no decision
Result(dd, label, conf) ==
    LET crop == CropName(dd, label)
        disease == DiseaseName(dd, label)
    IN  [success |-> TRUE,
         data |-> [
            predictedClass |-> label,
            crop |-> crop,
            disease |-> disease,
            confidence |-> Round4(conf),
            plantHealth |-> Get(dd, "health_status", PlantHealthDefault(disease)),
            recommendations |-> [
                diagnosis |-> Get(dd, "diagnosis", DiagnosisDefault(crop, disease, conf)),
                treatment |-> Get(dd, "chemical_treatment",
                                  List(<<"Consult a local agronomist for treatment advice.">>)),
                organicTreatment |-> Get(dd, "organic_treatment",
                                  List(<<"Apply neem-based organic pesticide as a general precaution.">>)),
                irrigationAdvice |-> Get(dd, "irrigation_advice",
                                  Str(<<"Monitor soil moisture; avoid waterlogging.">>)),
                fertilizerAdvice |-> Get(dd, "fertilizer_advice",
                                  Str(<<"Maintain balanced NPK nutrition.">>))],
            growthStage |-> [
                stage |-> Get(dd, "growth_stage", Str(Unknown)),
                daysToHarvest |-> Get(dd, "days_to_harvest", Num("0"))],
            tutorial |-> Get(dd, "tutorial", List(<<>>)),
            soilInsights |-> [tips |-> List(<<"Ensure soil is well-drained.",
                                             "Check and maintain appropriate pH levels.">>)],
            weatherImpact |-> [
                riskLevel |-> Str(<<"Monitor">>),
                advice |-> Str(<<"Monitor local weather forecasts for humidity spikes which promote fungal spread.">>)]]]

\* The rejected-input object of step 9
InvalidImage ==
    [success |-> TRUE, status |-> "invalid_image",
     message |-> "Non-agricultural image detected. Please upload a clear photo of a crop leaf, plant, or soil."]

\* The failure object every handler emits
Failure(error) == [success |-> FALSE, status |-> "model_error", error |-> error]

----------------------------------------------------------------------------
(* Inputs: what the files and the models can hold *)

\* The label the training data gives class i
ClassLabel(i) ==
    IF i = 0 THEN Tomato___Healthy
    ELSE IF i = 1 THEN Wheat___Rust
    ELSE <<"C", ToString(i)>> \o Sep \o <<"s", "p", "o", "t">>

\* class_names as read from class_indices.json for a model of n classes: the
\* indices 0 .. m-1 are present, and possibly the first or the last of them is
\* labelled "PlantVillage"
ClassMaps(n) ==
    UNION {{[i \in 0 .. (m - 1) |-> IF i = pv THEN PlantVillage ELSE ClassLabel(i)] :
                pv \in {-1, 0, m - 1}} : m \in 0 .. n}

\* The fallback when class_indices.json is absent
FallbackNames == 0 :> Unknown

\* model.predict(...)[0] for a model of n classes
ScoreVectors(n) == [0 .. (n - 1) -> ScoreValues]

FullRecord ==
    [crop |-> Str(<<"T", "o", "m", "a", "t", "o">>),
     disease |-> Str(<<"L", "a", "t", "e", " ", "b", "l", "i", "g", "h", "t">>),
     health_status |-> Str(<<"Diseased">>),
     diagnosis |-> Str(<<"Late blight detected.">>),
     chemical_treatment |-> List(<<"Apply mancozeb.">>),
     organic_treatment |-> List(<<"Apply copper spray.">>),
     irrigation_advice |-> Str(<<"Avoid overhead irrigation.">>),
     fertilizer_advice |-> Str(<<"Reduce nitrogen.">>),
     growth_stage |-> Str(<<"Vegetative">>),
     days_to_harvest |-> Num("45"),
     tutorial |-> List(<<"Remove infected leaves.">>)]

PartialRecord == [diagnosis |-> Str(<<"Late blight detected.">>)]

NullCropRecord == [crop |-> Null, disease |-> Str(<<"L", "a", "t", "e", " ", "b", "l", "i", "g", "h", "t">>)]

NullDiseaseRecord == [crop |-> Str(<<"T", "o", "m", "a", "t", "o">>), disease |-> Null]

NullAdviceRecord == [FullRecord EXCEPT !.tutorial = Null]

Records == {EmptyDict, PartialRecord, FullRecord, NullCropRecord, NullDiseaseRecord, NullAdviceRecord}

\* full_disease_info as read from disease_info.json: no record, or one record
\* for one of the labels
Stores(labels) == {EmptyDict} \cup {l :> r : l \in labels, r \in Records}

\* strings over {a, _} of length at most n
RECURSIVE Parts(_)
Parts(n) ==
    IF n = 0 THEN {<<>>}
    ELSE Parts(n - 1) \cup {Append(s, c) : s \in {x \in Parts(n - 1) : Len(x) = n - 1}, c \in {"a", "_"}}

\* labels of the form A___B
GeneratedLabels == {a \o Sep \o b : a \in Parts(MaxPartLen), b \in Parts(MaxPartLen)}

\* int(model.predict(df)[0]) of the soil model
SoilClassIds == (-1 .. MaxSoilClass) \cup {99}

----------------------------------------------------------------------------
(* predict_soil(features_str) *)

data == <<class_names, full_disease_info, tmp_file, predictions, top_k_indices,
          predicted_class_idx, confidence, predicted_class, prediction>>

\* emit(obj) and return
EmitAndReturn(obj) ==
    /\ emitted' = Append(emitted, obj)
    /\ pc' = "done"

\* An exception that no handler of the function catches
Escape ==
    /\ escaped' = TRUE
    /\ pc' = "done"
    /\ UNCHANGED emitted

\* if not os.path.exists(SOIL_MODEL_PATH): emit the failure and return
SoilCheck ==
    /\ mode = "soil" /\ pc = "check"
    /\ \E exists \in BOOLEAN :
        /\ model_missing' = ~exists
        /\ IF exists
           THEN pc' = "import" /\ UNCHANGED emitted
           ELSE EmitAndReturn(Failure("Soil model not found"))
    /\ UNCHANGED <<mode, escaped, info_missing, data>>

\* import pickle, pandas: only ImportError is caught
SoilImport ==
    /\ mode = "soil" /\ pc = "import"
    /\ \E outcome \in {"ok", "ImportError", "other"} :
        CASE outcome = "ok" -> pc' = "load" /\ UNCHANGED <<emitted, escaped>>
          [] outcome = "ImportError" ->
                EmitAndReturn(Failure("Missing Python dependency")) /\ UNCHANGED escaped
          [] OTHER -> Escape
    /\ UNCHANGED <<mode, model_missing, info_missing, data>>

\* open the model file, pickle.load, parse the features, build the DataFrame
SoilLoad ==
    /\ mode = "soil" /\ pc = "load"
    /\ \E raises \in BOOLEAN :
        IF raises THEN EmitAndReturn(Failure("exception")) ELSE pc' = "predict" /\ UNCHANGED emitted
    /\ UNCHANGED <<mode, escaped, model_missing, info_missing, data>>

\* prediction = int(model.predict(df)[0])
SoilPredict ==
    /\ mode = "soil" /\ pc = "predict"
    /\ \/ /\ \E id \in SoilClassIds : prediction' = id
          /\ pc' = "map"
          /\ UNCHANGED emitted
       \/ /\ EmitAndReturn(Failure("exception"))
          /\ UNCHANGED prediction
    /\ UNCHANGED <<mode, escaped, model_missing, info_missing, class_names,
                   full_disease_info, tmp_file, predictions, top_k_indices,
                   predicted_class_idx, confidence, predicted_class>>

\* The status with the default of the log line, 'Unknown'
SoilStatus_LogDefault(id) ==
    CASE id = 0 -> "Balanced Soil"
      [] id = 1 -> "Nutrient Deficient - Low Nitrogen / Organic Matter"
      [] id = 2 -> "Nutrient Deficient - Low Phosphorus / Potassium"
      [] OTHER -> "Unknown"

\* status_map.get(prediction, f"Class {prediction}"); the dash of the two
\* deficiency texts is written -
SoilStatus(id) ==
    CASE id = 0 -> "Balanced Soil"
      [] id = 1 -> "Nutrient Deficient - Low Nitrogen / Organic Matter"
      [] id = 2 -> "Nutrient Deficient - Low Phosphorus / Potassium"
      [] OTHER -> "Class " \o ToString(id)

\* rec_map.get(prediction, "Consult an agronomist.")
SoilRecommendation(id) ==
    CASE id = 0 -> "Soil is well-balanced. Maintain regular composting and pH monitoring."
      [] id = 1 -> "Apply organic compost or urea to restore nitrogen levels. Consider green manure."
      [] id = 2 -> "Apply DAP (Di-ammonium Phosphate) or MOP (Muriate of Potash) as appropriate."
      [] OTHER -> "Consult an agronomist."

SoilResult(id) ==
    [success |-> TRUE,
     data |-> [soilType |-> "Analysed via ML Model",
               status |-> SoilStatus(id),
               predictionClass |-> id,
               recommendation |-> SoilRecommendation(id)]]

\* the status and recommendation lookup and the emit of the success object
SoilMap ==
    /\ mode = "soil" /\ pc = "map"
    /\ EmitAndReturn(SoilResult(prediction))
    /\ UNCHANGED <<mode, escaped, model_missing, info_missing, data>>

----------------------------------------------------------------------------
(* predict(image_url) *)

resolved == <<top_k_indices, predicted_class_idx, confidence, predicted_class>>

\* The model file check without its return: a missing file is reported and the
\* invocation goes on
ModelCheck_NoReturn ==
    /\ mode = "image" /\ pc = "check"
    /\ \E exists \in BOOLEAN :
        /\ model_missing' = ~exists
        /\ pc' = "size"
        /\ emitted' = IF exists THEN emitted
                      ELSE Append(emitted, Failure("Model not loaded - file not found"))
    /\ UNCHANGED <<mode, escaped, info_missing, data>>

\* 1. if not os.path.exists(MODEL_PATH): emit the failure and return
ModelCheck ==
    /\ mode = "image" /\ pc = "check"
    /\ \E exists \in BOOLEAN :
        /\ model_missing' = ~exists
        /\ IF exists
           THEN pc' = "size" /\ UNCHANGED emitted
           ELSE EmitAndReturn(Failure("Model not loaded - file not found"))
    /\ UNCHANGED <<mode, escaped, info_missing, data>>

\* os.path.getsize(MODEL_PATH), before any try: OSError when the file has gone
\* or cannot be read since the check
ModelSize ==
    /\ mode = "image" /\ pc = "size"
    /\ \E raises \in BOOLEAN :
        IF raises THEN Escape ELSE pc' = "import" /\ UNCHANGED <<emitted, escaped>>
    /\ UNCHANGED <<mode, model_missing, info_missing, data>>

\* 2. import numpy, tensorflow, keras: only ImportError is caught
TensorFlowImport ==
    /\ mode = "image" /\ pc = "import"
    /\ \E outcome \in {"ok", "ImportError", "other"} :
        CASE outcome = "ok" -> pc' = "load" /\ UNCHANGED <<emitted, escaped>>
          [] outcome = "ImportError" ->
                EmitAndReturn(Failure("TensorFlow missing")) /\ UNCHANGED escaped
          [] OTHER -> Escape
    /\ UNCHANGED <<mode, model_missing, info_missing, data>>

\* 3. model = load_model(MODEL_PATH)
LoadModel ==
    /\ mode = "image" /\ pc = "load"
    /\ \E raises \in BOOLEAN :
        IF raises THEN EmitAndReturn(Failure("exception")) ELSE pc' = "indices" /\ UNCHANGED emitted
    /\ UNCHANGED <<mode, escaped, model_missing, info_missing, data>>

\* 4. class_names from class_indices.json, or the fallback when it is absent
LoadIndices(maps) ==
    /\ mode = "image" /\ pc = "indices"
    /\ \/ /\ class_names' \in maps
          /\ pc' = "info"
          /\ UNCHANGED emitted
       \/ /\ class_names' = FallbackNames
          /\ pc' = "info"
          /\ UNCHANGED emitted
       \/ /\ EmitAndReturn(Failure("exception"))
          /\ UNCHANGED class_names
    /\ UNCHANGED <<mode, escaped, model_missing, info_missing, full_disease_info,
                   tmp_file, predictions, resolved, prediction>>

\* 5. full_disease_info from disease_info.json, {} when it is absent
LoadInfo(stores) ==
    /\ mode = "image" /\ pc = "info"
    /\ \/ /\ full_disease_info' \in stores
          /\ info_missing' = FALSE
          /\ pc' = "download"
          /\ UNCHANGED emitted
       \/ /\ full_disease_info' = EmptyDict
          /\ info_missing' = TRUE
          /\ pc' = "download"
          /\ UNCHANGED emitted
       \/ /\ EmitAndReturn(Failure("exception"))
          /\ UNCHANGED <<full_disease_info, info_missing>>
    /\ UNCHANGED <<mode, escaped, model_missing, class_names, tmp_file,
                   predictions, resolved, prediction>>

\* 6. download the image and write it to a temporary file; the inner handler
\* emits the failure and returns
Download ==
    /\ mode = "image" /\ pc = "download"
    /\ \/ /\ tmp_file' = "exists"
          /\ pc' = "preprocess"
          /\ UNCHANGED emitted
       \/ /\ EmitAndReturn(Failure("Failed to download image"))
          /\ UNCHANGED tmp_file
    /\ UNCHANGED <<mode, escaped, model_missing, info_missing, class_names,
                   full_disease_info, predictions, resolved, prediction>>

\* 7. load_img, img_to_array, normalise, then os.unlink(tmp_path).  The unlink
\* comes after the preprocessing, with no finally: when load_img or a later
\* statement raises, the handler of the function emits the failure and the
\* file stays.  An exception of the unlink itself is swallowed.
Preprocess ==
    /\ mode = "image" /\ pc = "preprocess"
    /\ \/ /\ tmp_file' = "deleted"
          /\ pc' = "infer"
          /\ UNCHANGED emitted
       \/ /\ tmp_file' = "exists"
          /\ pc' = "infer"
          /\ UNCHANGED emitted
       \/ /\ EmitAndReturn(Failure("exception"))
          /\ UNCHANGED tmp_file
    /\ UNCHANGED <<mode, escaped, model_missing, info_missing, class_names,
                   full_disease_info, predictions, resolved, prediction>>

\* 8. predictions = model.predict(img_array)[0]
Infer(vectors) ==
    /\ mode = "image" /\ pc = "infer"
    /\ \/ /\ predictions' \in vectors
          /\ pc' = "gate"
          /\ UNCHANGED emitted
       \/ /\ EmitAndReturn(Failure("exception"))
          /\ UNCHANGED predictions
    /\ UNCHANGED <<mode, escaped, model_missing, info_missing, class_names,
                   full_disease_info, tmp_file, resolved, prediction>>

\* 9. if top_confidence < 0.15: emit invalid_image and return
Gate ==
    /\ mode = "image" /\ pc = "gate"
    /\ IF Rejects(predictions)
       THEN EmitAndReturn(InvalidImage)
       ELSE pc' = "resolve" /\ UNCHANGED emitted
    /\ UNCHANGED <<mode, escaped, model_missing, info_missing, data>>

\* 10. top-k selection, the walk that skips the artifact classes, the fallback
Resolve ==
    /\ mode = "image" /\ pc = "resolve"
    /\ \E t \in ArgsortTail(predictions) :
        /\ top_k_indices' = t
        /\ predicted_class_idx' = ResolvedIdx(predictions, class_names, t)
        /\ confidence' = ResolvedConfidence(predictions, class_names, t)
        /\ predicted_class' = NameOf(class_names, ResolvedIdx(predictions, class_names, t))
    /\ pc' = "assemble"
    /\ UNCHANGED <<mode, emitted, escaped, model_missing, info_missing, class_names,
                   full_disease_info, tmp_file, predictions, prediction>>

\* 11. enrich with disease info and emit the result; an exception goes to the
\* handler of the function, which emits the failure
Assemble ==
    /\ mode = "image" /\ pc = "assemble"
    /\ LET dd == DiseaseData(full_disease_info, predicted_class) IN
        IF AssembleRaises(dd, predicted_class)
        THEN EmitAndReturn(Failure("exception"))
        ELSE EmitAndReturn(Result(dd, predicted_class, confidence))
    /\ UNCHANGED <<mode, escaped, model_missing, info_missing, data>>

----------------------------------------------------------------------------
(* Specifications *)

Unset ==
    /\ class_names = <<>>
    /\ full_disease_info = <<>>
    /\ tmp_file = "none"
    /\ predictions = <<>>
    /\ top_k_indices = <<>>
    /\ predicted_class_idx = -1
    /\ confidence = 0
    /\ predicted_class = <<>>
    /\ prediction = 0

\* One invocation of predict() or predict_soil(), from its first statement
Init ==
    /\ mode \in {"image", "soil"}
    /\ pc = "check"
    /\ emitted = <<>>
    /\ escaped = FALSE
    /\ model_missing = FALSE
    /\ info_missing = FALSE
    /\ Unset

PipelineLabels == {ClassLabel(i) : i \in 0 .. (PipelineClasses - 1)} \cup {Unknown}

Next ==
    \/ SoilCheck
    \/ SoilImport
    \/ SoilLoad
    \/ SoilPredict
    \/ SoilMap
    \/ ModelCheck
    \/ ModelSize
    \/ TensorFlowImport
    \/ LoadModel
    \/ LoadIndices(ClassMaps(PipelineClasses))
    \/ LoadInfo(Stores(PipelineLabels))
    \/ Download
    \/ Preprocess
    \/ Infer(ScoreVectors(PipelineClasses))
    \/ Gate
    \/ Resolve
    \/ Assemble

Spec == Init /\ [][Next]_vars

\* The resolver and the assembler on every score vector of NumClasses classes:
\* predict() after step 8
ResolveStores == {EmptyDict, Unknown :> NullDiseaseRecord, Unknown :> FullRecord}

InitResolve ==
    /\ mode = "image"
    /\ pc = "gate"
    /\ emitted = <<>>
    /\ escaped = FALSE
    /\ model_missing = FALSE
    /\ info_missing = FALSE
    /\ class_names \in ClassMaps(NumClasses) \cup {FallbackNames}
    /\ full_disease_info \in (IF class_names = FallbackNames THEN ResolveStores ELSE {EmptyDict})
    /\ tmp_file = "deleted"
    /\ predictions \in ScoreVectors(NumClasses)
    /\ top_k_indices = <<>>
    /\ predicted_class_idx = -1
    /\ confidence = 0
    /\ predicted_class = <<>>
    /\ prediction = 0

NextResolve ==
    \/ Gate
    \/ Resolve
    \/ Assemble

SpecResolve == InitResolve /\ [][NextResolve]_vars

\* The decomposer and the assembler on every label and every kind of record:
\* predict() after step 10, for a model of two classes of which class_indices.json
\* names the first
AssembleLabels == GeneratedLabels \cup {Tomato___Healthy, Wheat___Rust, PlantVillage, Unknown}

InitAssemble ==
    /\ mode = "image"
    /\ pc = "assemble"
    /\ emitted = <<>>
    /\ escaped = FALSE
    /\ model_missing = FALSE
    /\ info_missing = FALSE
    /\ \E label \in AssembleLabels :
        /\ class_names = 0 :> label
        /\ full_disease_info \in Stores({label, Wheat___Rust})
    /\ tmp_file = "deleted"
    /\ predictions \in {f \in ScoreVectors(2) : ~Rejects(f)}
    /\ top_k_indices \in ArgsortTail(predictions)
    /\ predicted_class_idx = ResolvedIdx(predictions, class_names, top_k_indices)
    /\ confidence = ResolvedConfidence(predictions, class_names, top_k_indices)
    /\ predicted_class = NameOf(class_names, predicted_class_idx)
    /\ prediction = 0

NextAssemble == Assemble

SpecAssemble == InitAssemble /\ [][NextAssemble]_vars

----------------------------------------------------------------------------
(* Shapes of the emitted objects *)

IsFailure(r) == r.success = FALSE /\ r.status = "model_error" /\ "error" \in DOMAIN r

IsRejected(r) == r.success = TRUE /\ "status" \in DOMAIN r /\ r.status = "invalid_image"

IsResolved(r) == r.success = TRUE /\ "data" \in DOMAIN r /\ "predictedClass" \in DOMAIN r.data

Artifacts == {PlantVillage, Unknown}

Candidates == {top_k_indices[p] : p \in 1 .. Len(top_k_indices)}

Survivors == {i \in Candidates : NameOf(class_names, i) \notin Artifacts}

BelowGate == \A i \in DOMAIN predictions : predictions[i] < Threshold

\* step 10 has run in this invocation
ResolverRan == pc \in {"assemble", "done"} /\ predicted_class_idx # -1

----------------------------------------------------------------------------
(* Claims about the confidence gate and the candidate resolver, under SpecResolve *)

\* C1: a score vector whose maximum is below 0.15 ends the invocation with the
\* one object {success: true, status: "invalid_image", message} and no resolved
\* result, whatever the index of the maximum, the class index map and the
\* metadata store; a vector whose maximum is 0.15 or more is never rejected.
C1_ConfidenceGate ==
    pc # "gate" =>
        IF BelowGate
        THEN /\ pc = "done"
             /\ Len(emitted) = 1
             /\ IsRejected(emitted[1])
             /\ "message" \in DOMAIN emitted[1]
             /\ "data" \notin DOMAIN emitted[1]
        ELSE \A n \in 1 .. Len(emitted) : ~IsRejected(emitted[n])

\* C1 witness: a rejected vector whose maximum is not at index 0, with a class
\* index map that names real classes
C1_Witness ==
    /\ pc = "done"
    /\ emitted = <<InvalidImage>>
    /\ predictions[0] < predictions[NumClasses - 1]
    /\ Tomato___Healthy \in {class_names[i] : i \in DOMAIN class_names}

\* C2: the resolved label is "PlantVillage" or "Unknown" only if every one of
\* the top-5 candidates maps to one of those two labels; when some candidate has
\* another label no artifact label is surfaced, even from the highest score.
C2_ArtifactExclusion ==
    /\ ResolverRan =>
        (predicted_class \in Artifacts => Survivors = {})
    /\ \A n \in 1 .. Len(emitted) :
        IsResolved(emitted[n]) =>
            (emitted[n].data.predictedClass \in Artifacts => Survivors = {})

\* C2 witness: the first candidate holds the strictly highest score and is
\* labelled "PlantVillage", and the emitted label is a real class
C2_Witness ==
    /\ pc = "done"
    /\ IsResolved(emitted[1])
    /\ NameOf(class_names, top_k_indices[1]) = PlantVillage
    /\ \A i \in DOMAIN predictions : i # top_k_indices[1] => predictions[i] < predictions[top_k_indices[1]]
    /\ emitted[1].data.predictedClass \notin Artifacts

\* C3: when some top-5 candidate survives the skip filter, the resolved label
\* is the label of a surviving candidate of the highest score among the
\* survivors, and the reported confidence is that index's own score, changed
\* only by rounding to four decimals.
C3_ResolverResult ==
    \A n \in 1 .. Len(emitted) :
        (IsResolved(emitted[n]) /\ Survivors # {}) =>
            \E i \in Survivors :
                /\ emitted[n].data.predictedClass = NameOf(class_names, i)
                /\ \A j \in Survivors : predictions[j] <= predictions[i]
                /\ emitted[n].data.confidence % 10 = 0
                /\ emitted[n].data.confidence - predictions[i] \in -5 .. 5

\* C3 witness: the survivor's score is below the vector's maximum and is not a
\* multiple of 0.0001, so the rounding changes it
C3_Witness ==
    /\ pc = "done"
    /\ IsResolved(emitted[1])
    /\ Survivors # {}
    /\ predictions[predicted_class_idx] < Max(predictions)
    /\ emitted[1].data.confidence # predictions[predicted_class_idx]

\* C4 as stated: the candidate list is ordered by descending score with ties
\* broken by the lower index first, the lower index is preferred at the top-5
\* cutoff, and among equal-scored survivors the lowest index is returned.
C4_LowerIndexFirst ==
    ResolverRan =>
        /\ \A p, q \in 1 .. Len(top_k_indices) :
            p < q =>
                \/ predictions[top_k_indices[p]] > predictions[top_k_indices[q]]
                \/ /\ predictions[top_k_indices[p]] = predictions[top_k_indices[q]]
                   /\ top_k_indices[p] < top_k_indices[q]
        /\ \A i \in Candidates, j \in DOMAIN predictions \ Candidates :
                \/ predictions[i] > predictions[j]
                \/ predictions[i] = predictions[j] /\ i < j
        /\ Survivors # {} =>
                \A j \in Survivors :
                    predictions[j] = predictions[predicted_class_idx] => predicted_class_idx <= j

\* C4 amended: the candidate list holds five distinct indices in descending
\* order of score, no index outside it scores higher than one inside it, and
\* the resolver returns the first survivor in list order; the order among
\* equal scores is not fixed.
C4_DescendingScore ==
    ResolverRan =>
        /\ Len(top_k_indices) =
                IF Cardinality(DOMAIN predictions) < TopK
                THEN Cardinality(DOMAIN predictions) ELSE TopK
        /\ \A p, q \in 1 .. Len(top_k_indices) :
            p < q =>
                /\ top_k_indices[p] # top_k_indices[q]
                /\ predictions[top_k_indices[p]] >= predictions[top_k_indices[q]]
        /\ Candidates \subseteq DOMAIN predictions
        /\ \A i \in Candidates, j \in DOMAIN predictions \ Candidates :
                predictions[i] >= predictions[j]
        /\ Survivors # {} =>
                \E p \in 1 .. Len(top_k_indices) :
                    /\ top_k_indices[p] = predicted_class_idx
                    /\ predicted_class_idx \in Survivors
                    /\ \A q \in 1 .. (p - 1) : top_k_indices[q] \notin Survivors

\* C4 witness: two surviving candidates of equal score, the higher index listed
\* first and returned
C4_Witness ==
    /\ pc = "done"
    /\ IsResolved(emitted[1])
    /\ \E p, q \in 1 .. Len(top_k_indices) :
        /\ p < q
        /\ top_k_indices[p] = predicted_class_idx
        /\ top_k_indices[q] \in Survivors
        /\ top_k_indices[q] < top_k_indices[p]
        /\ predictions[top_k_indices[q]] = predictions[top_k_indices[p]]

\* C5: when the gate accepts the vector and every top-5 candidate maps to
\* "PlantVillage" or "Unknown", the invocation emits one resolved result, never
\* a failure, whose label is that of the first index holding the maximum and
\* whose confidence is the maximum.
C5_UnfilteredFallback ==
    (pc = "done" /\ ~BelowGate /\ Survivors = {}) =>
        /\ Len(emitted) = 1
        /\ IsResolved(emitted[1])
        /\ \E i \in DOMAIN predictions :
            /\ \A j \in DOMAIN predictions :
                predictions[j] < predictions[i] \/ (predictions[j] = predictions[i] /\ i <= j)
            /\ emitted[1].data.predictedClass = NameOf(class_names, i)
            /\ emitted[1].data.confidence - predictions[i] \in -5 .. 5

----------------------------------------------------------------------------
(* Claims about the label decomposer and the result assembler, under SpecAssemble *)

\* s with every underscore replaced by a space
SpacedOut(s) == [k \in 1 .. Len(s) |-> IF s[k] = "_" THEN " " ELSE s[k]]

\* a label is resolved, has no metadata record, and its result is emitted
Decomposed ==
    /\ pc = "done"
    /\ predicted_class \notin DOMAIN full_disease_info
    /\ IsResolved(emitted[1])

\* the ways to read the label as A___B: the lengths of A
Readings(label) == {k \in 0 .. (Len(label) - Len(Sep)) : MatchAt(label, Sep, k + 1)}

PartA(label, k) == SubSeq(label, 1, k)

PartB(label, k) == SubSeq(label, k + Len(Sep) + 1, Len(label))

\* C6 as stated: for any strings A and B, the label A___B with no metadata
\* record yields crop = A and disease = B, underscores replaced by spaces.
C6_RoundTripAnyParts ==
    Decomposed =>
        \A k \in Readings(predicted_class) :
            /\ emitted[1].data.crop = Str(SpacedOut(PartA(predicted_class, k)))
            /\ emitted[1].data.disease = Str(SpacedOut(PartB(predicted_class, k)))

\* A___B has its only separator between A and B
SingleSeparator(a, b) ==
    /\ ~Contains(a, Sep)
    /\ ~Contains(b, Sep)
    /\ a = <<>> \/ a[Len(a)] # "_"

\* C6 amended: when neither A nor B contains ___ and A does not end in an
\* underscore, the label A___B with no metadata record yields crop = A and
\* disease = B, underscores replaced by spaces.
C6_RoundTripSingleSeparator ==
    Decomposed =>
        \A k \in Readings(predicted_class) :
            SingleSeparator(PartA(predicted_class, k), PartB(predicted_class, k)) =>
                /\ emitted[1].data.crop = Str(SpacedOut(PartA(predicted_class, k)))
                /\ emitted[1].data.disease = Str(SpacedOut(PartB(predicted_class, k)))

\* C6 witness: both parts hold an underscore and differ
C6_Witness ==
    /\ Decomposed
    /\ \E k \in Readings(predicted_class) :
        LET a == PartA(predicted_class, k)
            b == PartB(predicted_class, k)
        IN  /\ SingleSeparator(a, b)
            /\ a # b
            /\ \E n \in 1 .. Len(a) : a[n] = "_"
            /\ \E n \in 1 .. Len(b) : b[n] = "_"
            /\ emitted[1].data.crop = Str(SpacedOut(a))
            /\ emitted[1].data.disease = Str(SpacedOut(b))

JsonFields(d) ==
    {d.crop, d.disease, d.plantHealth,
     d.recommendations.diagnosis, d.recommendations.treatment,
     d.recommendations.organicTreatment, d.recommendations.irrigationAdvice,
     d.recommendations.fertilizerAdvice,
     d.growthStage.stage, d.growthStage.daysToHarvest,
     d.tutorial, d.soilInsights.tips, d.weatherImpact.riskLevel, d.weatherImpact.advice}

\* C7: every resolved result holds every required field and none of them is
\* null, whatever the metadata store holds for the label: nothing, an empty or
\* partial record, or a record with null fields.
C7_FullyPopulated ==
    \A n \in 1 .. Len(emitted) :
        IsResolved(emitted[n]) =>
            /\ {"predictedClass", "crop", "disease", "confidence", "plantHealth",
                "recommendations", "growthStage", "tutorial", "soilInsights",
                "weatherImpact"} \subseteq DOMAIN emitted[n].data
            /\ \A x \in JsonFields(emitted[n].data) : x.t # "null"

----------------------------------------------------------------------------
(* Claims about whole invocations, under Spec *)

IsSoilSuccess(r) == r.success = TRUE /\ "data" \in DOMAIN r /\ "predictionClass" \in DOMAIN r.data

\* C8: every invocation of predict or predict_soil ends having emitted exactly
\* one object, of one of the documented shapes, with no exception leaving the
\* function, whichever stage fails.
C8_OneResult ==
    /\ Len(emitted) <= 1
    /\ pc = "done" =>
        /\ ~escaped
        /\ Len(emitted) = 1
        /\ \/ IsFailure(emitted[1])
           \/ IsRejected(emitted[1])
           \/ IsResolved(emitted[1])
           \/ IsSoilSuccess(emitted[1])

\* C9 as stated: a missing model file or a missing disease-info file ends the
\* invocation with the one failure object.
C9_MissingArtifactFails ==
    (pc = "done" /\ (model_missing \/ info_missing)) =>
        /\ Len(emitted) = 1
        /\ IsFailure(emitted[1])

\* C9 amended: a missing image model file or soil model file ends the
\* invocation with the one failure object, with nothing else emitted and no
\* second attempt; a missing disease-info file is no failure, the metadata
\* store is then empty.
C9_MissingModelFails ==
    /\ model_missing =>
        /\ pc = "done"
        /\ ~escaped
        /\ Len(emitted) = 1
        /\ IsFailure(emitted[1])
    /\ info_missing => full_disease_info = EmptyDict

\* C9 witness: predict has ended on a missing model file
C9_Witness ==
    /\ mode = "image"
    /\ pc = "done"
    /\ model_missing
    /\ Len(emitted) = 1
    /\ IsFailure(emitted[1])

\* C10: once the soil model has produced a class id, predict_soil emits the
\* success object with predictionClass = id; 0, 1 and 2 give their fixed status
\* and recommendation, every other id gives "Class {id}" and "Consult an
\* agronomist.", never a failure.
C10_TabularTotal ==
    [][(mode = "soil" /\ pc = "map") =>
        /\ pc' = "done"
        /\ Len(emitted') = 1
        /\ emitted'[1].success = TRUE
        /\ emitted'[1].data.predictionClass = prediction
        /\ emitted'[1].data.status =
            (CASE prediction = 0 -> "Balanced Soil"
               [] prediction = 1 -> "Nutrient Deficient - Low Nitrogen / Organic Matter"
               [] prediction = 2 -> "Nutrient Deficient - Low Phosphorus / Potassium"
               [] prediction = 99 -> "Class 99"
               [] prediction = -1 -> "Class -1"
               [] OTHER -> "Class " \o ToString(prediction))
        /\ emitted'[1].data.recommendation =
            (CASE prediction = 0 -> "Soil is well-balanced. Maintain regular composting and pH monitoring."
               [] prediction = 1 -> "Apply organic compost or urea to restore nitrogen levels. Consider green manure."
               [] prediction = 2 -> "Apply DAP (Di-ammonium Phosphate) or MOP (Muriate of Potash) as appropriate."
               [] OTHER -> "Consult an agronomist.")]_vars

\* C10 witness: the id 99 has been mapped
C10_Witness ==
    /\ mode = "soil"
    /\ pc = "done"
    /\ prediction = 99
    /\ Len(emitted) = 1
    /\ emitted[1].success = TRUE
    /\ emitted[1].data.status = "Class 99"
    /\ emitted[1].data.recommendation = "Consult an agronomist."

\* C11: in predict, once the downloaded image has been written to a temporary
\* file, the file has been deleted by the time a result is emitted, on every
\* path, those where preprocessing or a later stage raises included.
C11_TempFileCleanup ==
    (mode = "image" /\ tmp_file # "none" /\ Len(emitted) >= 1) => tmp_file = "deleted"

====
